---- MODULE Spec2Model ----
(***************************************************************************)
(* Company map / company globe: a spreadsheet of company rows is loaded,   *)
(* each row's City/Country is geocoded through a cached web lookup, and    *)
(* the rows are shown as markers that column filters and a global search   *)
(* narrow down.  Three variants share the logic: the Leaflet canvas        *)
(* variant (src/app.js), the Leaflet cluster variant (src/unnamed/part_001)*)
(* and the Globe variant (src/unnamed/part_002).                           *)
(*                                                                         *)
(* Strings are sequences of character codes (<<97, 98>> is "ab"), so that  *)
(* trimming, lower-casing, joining, substring search and hashing are       *)
(* computed and not assumed.  Column names are plain TLA+ strings: the     *)
(* code only compares them for equality.                                   *)
(***************************************************************************)
EXTENDS Integers, Sequences, FiniteSets, TLC

VARIABLES
    variant,            \* which of the three scripts is running
    allRows,            \* let allRows
    filteredRows,       \* let filteredRows
    columnNames,        \* let columnNames
    dropdowns,          \* the <select> elements buildFilters created: column -> options
    filtersState,       \* let filtersState: column -> selected value
    globalSearchTerm,   \* let globalSearchTerm
    debouncePending,    \* the 200 ms search timer is armed
    geocodeCache,       \* let geocodeCache: key -> null | coordinates
    storage,            \* localStorage item under geocodeCacheKey
    lastSaveOk,         \* outcome of the latest localStorage.setItem
    runs,               \* executions of addMarkersForRows / buildPointsData
    markers,            \* Leaflet: layers of markersLayer / cluster
    pointsData,         \* Globe: let pointsData
    rendered,           \* Globe: the points handed to globe.pointsData(...)
    loads,              \* spreadsheet fetches in flight, by origin
    toastMsg,           \* the message the last step put in the toast element
    lastOp,             \* the handler or continuation that ran last
    outcome,            \* how the last step ended: ok, caught, toastError, unhandled
    okMemo,             \* per key, the value the latest OK response memoized
    events,             \* number of user events so far
    fnArgs,             \* argument tuple of the pure function under study
    fnRes               \* its result

vars == <<variant, allRows, filteredRows, columnNames, dropdowns, filtersState,
          globalSearchTerm, debouncePending, geocodeCache, storage, lastSaveOk,
          runs, markers, pointsData, rendered, loads, toastMsg, lastOp, outcome,
          okMemo, events, fnArgs, fnRes>>

appVars == <<variant, allRows, filteredRows, columnNames, dropdowns, filtersState,
             globalSearchTerm, debouncePending, geocodeCache, storage, lastSaveOk,
             runs, markers, pointsData, rendered, loads, toastMsg, lastOp, outcome,
             okMemo, events>>

(***************************************************************************)
(* Bounds                                                                  *)
(***************************************************************************)
MaxEvents == 2      \* user events (clicks, selections, typing) per behaviour
MaxRuns == 2        \* marker runs that may be suspended at the same time
MaxStoreEvents == 1 \* user events per behaviour when storage writes may fail
MaxLen == 3         \* longest company type drawn for colorForType
MaxKeyLen == 2      \* longest city / country drawn for makeGeocodeKey
MaxOver == 1        \* how far past a dropdown limit the drawn columns go

(***************************************************************************)
(* Strings                                                                 *)
(***************************************************************************)
Variants == {"canvas", "cluster", "globe"}
Leaflet == {"canvas", "cluster"}

\* String.prototype.trim strips these (the ASCII part of JS white space)
IsSpace(c) == c \in {9, 10, 11, 12, 13, 32}

RECURSIVE TrimLeft(_)
TrimLeft(s) ==
    IF s = <<>> THEN <<>>
    ELSE IF IsSpace(Head(s)) THEN TrimLeft(Tail(s)) ELSE s

RECURSIVE TrimRight(_)
TrimRight(s) ==
    IF s = <<>> THEN <<>>
    ELSE IF IsSpace(s[Len(s)]) THEN TrimRight(SubSeq(s, 1, Len(s) - 1)) ELSE s

Trim(s) == TrimRight(TrimLeft(s))

\* String.prototype.toLowerCase on ASCII letters
LowerChar(c) == IF c \in 65..90 THEN c + 32 ELSE c
toLowerCase(s) == [i \in 1..Len(s) |-> LowerChar(s[i])]

\* String.prototype.includes
includes(hay, needle) ==
    \E i \in 0..(Len(hay) - Len(needle)) :
        SubSeq(hay, i + 1, i + Len(needle)) = needle

\* Array.prototype.join
RECURSIVE join(_, _)
join(parts, sep) ==
    IF parts = <<>> THEN <<>>
    ELSE IF Len(parts) = 1 THEN parts[1]
    ELSE parts[1] \o sep \o join(Tail(parts), sep)

(***************************************************************************)
(* Cell values: what XLSX.utils.sheet_to_json puts in a row object, and    *)
(* the undefined a missing property reads as.                              *)
(***************************************************************************)
Undefined == [t |-> "undefined"]
Null == [t |-> "null"]
Str(s) == [t |-> "str", s |-> s]
Num(n) == [t |-> "num", n |-> n]

\* String(n) for a non-negative integer
RECURSIVE DigitsOf(_)
DigitsOf(n) ==
    IF n < 10 THEN <<48 + n>> ELSE DigitsOf(n \div 10) \o <<48 + (n % 10)>>

\* String(v) for a defined cell
ToStr(v) == IF v.t = "num" THEN DigitsOf(v.n) ELSE v.s

\* if (v === undefined || v === null) return ""; return String(v).trim();
normalize(v) == IF v.t = "undefined" \/ v.t = "null" THEN <<>> ELSE Trim(ToStr(v))

\* Numbers as the code holds them: a number, NaN or null
NumVal(n) == [k |-> "num", v |-> n]
NaN == [k |-> "nan", v |-> 0]
NullVal == [k |-> "null", v |-> 0]

IsDigit(c) == c \in 48..57

RECURSIVE DigitPrefix(_)
DigitPrefix(s) ==
    IF s = <<>> \/ ~IsDigit(Head(s)) THEN <<>>
    ELSE <<Head(s)>> \o DigitPrefix(Tail(s))

RECURSIVE DigitsValue(_)
DigitsValue(d) ==
    IF d = <<>> THEN 0
    ELSE DigitsValue(SubSeq(d, 1, Len(d) - 1)) * 10 + (d[Len(d)] - 48)

\* parseFloat: skips leading white space, reads the longest numeric prefix
\* (here: unsigned decimal digits), NaN when there is none.
parseFloat(v) ==
    LET s == TrimLeft(ToStr(v))
        d == DigitPrefix(s)
    IN IF d = <<>> THEN NaN ELSE NumVal(DigitsValue(d))

isNaN(x) == x.k = "nan"

(***************************************************************************)
(* Row objects: a row is the sequence of its (key, value) properties in    *)
(* insertion order, as Object.keys enumerates them.                        *)
(***************************************************************************)
Keys(row) == [i \in 1..Len(row) |-> row[i].k]
KeySet(row) == {row[i].k : i \in 1..Len(row)}

\* row[col]
Get(row, col) ==
    IF col \in KeySet(row)
    THEN (CHOOSE p \in {row[i] : i \in 1..Len(row)} : p.k = col).v
    ELSE Undefined

\* maps: filtersState, geocodeCache, dropdowns
EmptyMap == <<>>
Put(f, k, v) == [x \in (DOMAIN f) \cup {k} |-> IF x = k THEN v ELSE f[x]]
Remove(f, k) == [x \in (DOMAIN f) \ {k} |-> f[x]]

REQUIRED == <<"Company Name", "Company Type", "Country", "City">>

(***************************************************************************)
(* colorForType: h = (h * 31 + charCode) >>> 0 over the characters, then   *)
(* h % 360.  The 32-bit value is held as two 16-bit halves so that no      *)
(* intermediate product leaves the checker's integers:                     *)
(*   h = hi * 65536 + lo.                                                  *)
(***************************************************************************)
UnknownType == <<85, 110, 107, 110, 111, 119, 110>>     \* "Unknown"

\* (h * 31 + c) >>> 0
HashStep(h, c) ==
    LET low == h.lo * 31 + c
    IN [lo |-> low % 65536, hi |-> (h.hi * 31 + low \div 65536) % 65536]

RECURSIVE HashFrom(_, _, _)
HashFrom(h, s, i) == IF i > Len(s) THEN h ELSE HashFrom(HashStep(h, s[i]), s, i + 1)

\* h % 360 for h = hi * 65536 + lo
Mod360(h) == ((h.hi % 360) * (65536 % 360) + h.lo) % 360

\* the saturation and lightness of the hsl(...) string differ by variant
Hsl(hue) ==
    [hue |-> hue,
     sat |-> IF variant = "globe" THEN 65 ELSE 85,
     light |-> IF variant = "globe" THEN 55 ELSE IF variant = "cluster" THEN 60 ELSE 45]

\* a mutation of colorForType: the || "Unknown" default is dropped
colorForTypeNoDefault(type) ==
    Hsl(Mod360(HashFrom([hi |-> 0, lo |-> 0], normalize(type), 1)))

colorForType(type) ==
    LET n == normalize(type)
        s == IF n = <<>> THEN UnknownType ELSE n
    IN Hsl(Mod360(HashFrom([hi |-> 0, lo |-> 0], s, 1)))

(***************************************************************************)
(* Geocode cache key                                                       *)
(***************************************************************************)
makeGeocodeKey(city, country) ==
    toLowerCase(normalize(city)) \o <<124>> \o toLowerCase(normalize(country))

\* the q parameter of the request
makeQuery(city, country) == normalize(city) \o <<44, 32>> \o normalize(country)

(***************************************************************************)
(* Filter engine                                                           *)
(***************************************************************************)
\* the haystack the global search looks in
haystack(row, cols) ==
    join([i \in 1..Len(cols) |-> toLowerCase(normalize(Get(row, cols[i])))],
         <<32, 124, 32>>)

searchPasses(row, term, cols) ==
    IF term # <<>> THEN includes(haystack(row, cols), term) ELSE TRUE

\* a mutation of matches: the column filters are ignored
matchesSearchOnly(row, fs, term, cols) == searchPasses(row, term, cols)

\* rowMatchesFilters with its three globals as parameters
matches(row, fs, term, cols) ==
    /\ \A col \in DOMAIN fs : normalize(Get(row, col)) = fs[col]
    /\ searchPasses(row, term, cols)

rowMatchesFilters(row) == matches(row, filtersState, globalSearchTerm, columnNames)

\* allRows.filter(rowMatchesFilters) under the given filter settings
RECURSIVE filterRows(_, _, _, _)
filterRows(rows, fs, term, cols) ==
    IF rows = <<>> THEN <<>>
    ELSE (IF matches(Head(rows), fs, term, cols) THEN <<Head(rows)>> ELSE <<>>)
         \o filterRows(Tail(rows), fs, term, cols)

(***************************************************************************)
(* Validation and filter construction                                      *)
(***************************************************************************)
\* the Set of keys across rows, in insertion order (Array.from(cols))
RECURSIVE AppendNew(_, _)
AppendNew(acc, ks) ==
    IF ks = <<>> THEN acc
    ELSE AppendNew(IF \E i \in 1..Len(acc) : acc[i] = Head(ks)
                   THEN acc ELSE Append(acc, Head(ks)), Tail(ks))

\* (by halves: the keys of the later rows are added after those of the
\* earlier rows)
RECURSIVE columnsOf(_)
columnsOf(rows) ==
    IF rows = <<>> THEN <<>>
    ELSE IF Len(rows) = 1 THEN AppendNew(<<>>, Keys(rows[1]))
    ELSE LET half == Len(rows) \div 2
         IN AppendNew(columnsOf(SubSeq(rows, 1, half)),
                      columnsOf(SubSeq(rows, half + 1, Len(rows))))

ColumnSet(rows) == {columnsOf(rows)[i] : i \in 1..Len(columnsOf(rows))}

validateColumns(rows) ==
    LET cols == ColumnSet(rows)
    IN SelectSeq(REQUIRED, LAMBDA c : c \notin cols)

MAX_UNIQUES_FOR_DROPDOWN == 200      \* Leaflet variants
MAX_UNIQUES == 150                   \* Globe variant

MaxUniques == IF variant = "globe" THEN MAX_UNIQUES ELSE MAX_UNIQUES_FOR_DROPDOWN

uniquesOf(rows, col) ==
    {normalize(Get(rows[i], col)) : i \in 1..Len(rows)} \ {<<>>}

\* the dropdowns buildFilters creates: column -> offered values (besides "All")
buildDropdowns(rows) ==
    LET cols == {c \in ColumnSet(rows) :
                    /\ Cardinality(uniquesOf(rows, c)) # 0
                    /\ ~(Cardinality(uniquesOf(rows, c)) > MaxUniques)}
    IN [c \in cols |-> uniquesOf(rows, c)]

\* the Set uniques after the loop over the rows, in insertion order: the
\* distinct non-empty values by first occurrence.  The loop adds one value
\* at a time and breaks once the Set holds more than the limit, so it ends
\* with the first limit + 1 of them at most.  (Computed by halves: a value
\* of the second half is new when the first half does not have it.)
RECURSIVE firstOccurrences(_)
firstOccurrences(vals) ==
    IF Len(vals) = 0 THEN <<>>
    ELSE IF Len(vals) = 1 THEN (IF vals[1] # <<>> THEN vals ELSE <<>>)
    ELSE LET half == Len(vals) \div 2
             left == firstOccurrences(SubSeq(vals, 1, half))
             seen == {left[i] : i \in 1..Len(left)}
         IN left \o SelectSeq(firstOccurrences(SubSeq(vals, half + 1, Len(vals))),
                               LAMBDA v : v \notin seen)

scanUniques(rows, col, limit) ==
    LET all == firstOccurrences([i \in 1..Len(rows) |-> normalize(Get(rows[i], col))])
    IN IF Len(all) > limit THEN SubSeq(all, 1, limit + 1) ELSE all

\* a.localeCompare(b) < 0, for the characters used here: by character code
RECURSIVE localeCompareLess(_, _)
localeCompareLess(a, b) ==
    IF b = <<>> THEN FALSE
    ELSE IF a = <<>> THEN TRUE
    ELSE IF Head(a) # Head(b) THEN Head(a) < Head(b)
    ELSE localeCompareLess(Tail(a), Tail(b))

\* Array.from(uniques).sort((a, b) => a.localeCompare(b)).  The values of a
\* Set are distinct, so the place of a value in the sorted array is one more
\* than the number of values before it in the order.
sortValues(vals) ==
    LET n == Len(vals)
        place == [i \in 1..n |->
                     1 + Cardinality({j \in 1..n : localeCompareLess(vals[j], vals[i])})]
                 \o <<>>
    IN [k \in 1..n |-> vals[CHOOSE i \in 1..n : place[i] = k]]

\* a mutation of selectOptions: a column with exactly the limit is skipped
selectOptionsBelowLimit(rows, col) ==
    LET uniques == scanUniques(rows, col, MaxUniques)
    IN IF Len(uniques) = 0 \/ Len(uniques) >= MaxUniques THEN <<>>
       ELSE <<(<<>>)>> \o sortValues(uniques)

\* the option values of the <select> buildFilters creates for col, "All"
\* (value "") first; <<>> when it creates none
selectOptions(rows, col) ==
    LET uniques == scanUniques(rows, col, MaxUniques)
    IN IF Len(uniques) = 0 \/ Len(uniques) > MaxUniques THEN <<>>
       ELSE <<(<<>>)>> \o sortValues(uniques)

\* buildFilters: what it leaves in filtersState and columnNames, and the
\* <select> elements it appends, in column order
buildFilters(rows) ==
    LET cols == columnsOf(rows)
        made == SelectSeq(cols, LAMBDA c : selectOptions(rows, c) # <<>>)
    IN [filtersState |-> EmptyMap,
        columnNames |-> cols,
        selects |-> [i \in 1..Len(made) |->
                        [col |-> made[i], options |-> selectOptions(rows, made[i])]]]

(***************************************************************************)
(* Detail view: popupHtml (Leaflet) builds HTML text, showInfo (Globe)     *)
(* builds elements and sets their textContent.                             *)
(***************************************************************************)
\* String.prototype.replaceAll for a single character
RECURSIVE replaceAll(_, _, _)
replaceAll(s, c, by) ==
    IF s = <<>> THEN <<>>
    ELSE (IF Head(s) = c THEN by ELSE <<Head(s)>>) \o replaceAll(Tail(s), c, by)

\* & -> &amp;  < -> &lt;  > -> &gt;  " -> &quot;  ' -> &#039;  in this order
escapeHtml(str) ==
    LET s1 == replaceAll(str, 38, <<38, 97, 109, 112, 59>>)
        s2 == replaceAll(s1, 60, <<38, 108, 116, 59>>)
        s3 == replaceAll(s2, 62, <<38, 103, 116, 59>>)
        s4 == replaceAll(s3, 34, <<38, 113, 117, 111, 116, 59>>)
    IN replaceAll(s4, 39, <<38, 35, 48, 51, 57, 59>>)

\* the character references the popup's HTML is parsed with
Entities ==
    {[name |-> <<38, 97, 109, 112, 59>>, char |-> 38],
     [name |-> <<38, 108, 116, 59>>, char |-> 60],
     [name |-> <<38, 103, 116, 59>>, char |-> 62],
     [name |-> <<38, 113, 117, 111, 116, 59>>, char |-> 34],
     [name |-> <<38, 35, 48, 51, 57, 59>>, char |-> 39]}

\* the text a piece of HTML without tags shows once the browser has parsed it
RECURSIVE htmlText(_)
htmlText(h) ==
    IF h = <<>> THEN <<>>
    ELSE LET at == {e \in Entities : Len(e.name) <= Len(h)
                                     /\ SubSeq(h, 1, Len(e.name)) = e.name}
         IN IF at # {}
            THEN LET e == CHOOSE x \in at : TRUE
                 IN <<e.char>> \o htmlText(SubSeq(h, Len(e.name) + 1, Len(h)))
            ELSE <<Head(h)>> \o htmlText(Tail(h))

\* a mutation of listed: the raw cell is compared with "", untrimmed
listedUntrimmed(row, k) == Get(row, k) # Str(<<>>)

\* the key passes .filter((k) => normalize(row[k]) !== "") / if (!v) return
listed(row, k) == normalize(Get(row, k)) # <<>>

\* the value the entry of key k shows.  Leaflet: escapeHtml(row[k]) put in
\* the popup's HTML; Globe: textContent = normalize(row[k]).
shownValue(row, k) ==
    IF variant \in Leaflet
    THEN htmlText(escapeHtml(IF Get(row, k).t = "null" THEN <<110, 117, 108, 108>>
                             ELSE ToStr(Get(row, k))))
    ELSE normalize(Get(row, k))

\* the key/value entries of the detail view, in the order of Object.keys(row)
detailEntries(row) ==
    LET keys == SelectSeq(Keys(row), LAMBDA k : listed(row, k))
    IN [i \in 1..Len(keys) |-> [k |-> keys[i], v |-> shownValue(row, keys[i])]]

(***************************************************************************)
(* Geocode cache and its persistence                                       *)
(***************************************************************************)
NullResult == [k |-> "null", lat |-> NullVal, lon |-> NullVal]
Coords(lat, lon) == [k |-> "coords", lat |-> lat, lon |-> lon]

\* JSON.stringify writes NaN as null; null and finite numbers are kept
JsonNumber(x) == IF x.k = "num" THEN x ELSE NullVal
JsonValue(v) ==
    IF v.k = "null" THEN v ELSE Coords(JsonNumber(v.lat), JsonNumber(v.lon))

NoItem == [k |-> "none", v |-> EmptyMap]
Corrupt == [k |-> "corrupt", v |-> EmptyMap]
\* JSON.stringify(geocodeCache), as the item localStorage then holds
Stringify(cache) == [k |-> "json", v |-> [key \in DOMAIN cache |-> JsonValue(cache[key])]]

\* loadGeocodeCache: raw ? JSON.parse(raw) : {}, and {} when parsing throws
loadGeocodeCache(item) == IF item.k = "json" THEN item.v ELSE EmptyMap

\* a mutation of saveGeocodeCache: negative (null) results are not written
saveWithoutNulls(cache, writeOk) ==
    IF writeOk
    THEN Stringify([key \in {k \in DOMAIN cache : cache[k].k # "null"} |-> cache[key]])
    ELSE storage

\* saveGeocodeCache: the item after localStorage.setItem, which may throw
\* (quota, storage disabled); the exception is caught and the item stays.
saveGeocodeCache(cache, writeOk) == IF writeOk THEN Stringify(cache) ELSE storage

\* the geocoder's answers: HTTP error, OK with no place, OK with one place
ErrorResponse == [ok |-> FALSE, data |-> <<>>]
OkResponse(data) == [ok |-> TRUE, data |-> data]
Place(lat, lon) == [lat |-> Str(lat), lon |-> Str(lon)]
Responses ==
    {ErrorResponse, OkResponse(<<>>), OkResponse(<<Place(<<52, 56>>, <<50>>)>>)}

\* what geocodeCityCountry memoizes for an OK response
resultOf(resp) ==
    IF Len(resp.data) = 0 THEN NullResult
    ELSE Coords(parseFloat(resp.data[1].lat), parseFloat(resp.data[1].lon))

(***************************************************************************)
(* Marker runs: one execution of addMarkersForRows (Leaflet) or of         *)
(* buildPointsData (Globe).  A run is suspended at an await: "fetch" while *)
(* its geocoding request is in flight, "sleep" during the polite pause.    *)
(* i is the loop index (0-based).  geocoded: the indices geocodeCityCountry*)
(* was called for; nullAt: those it returned null for; sent: those it sent *)
(* a request for; paused: those the loop slept after.                      *)
(***************************************************************************)
RunIds == 1..MaxRuns

IdleRun == [st |-> "idle", origin |-> "none", rows |-> <<>>, i |-> 0,
            added |-> 0, missing |-> 0, key |-> <<>>, q |-> <<>>,
            geocoded |-> {}, newPoints |-> <<>>, sentMemoized |-> FALSE,
            sent |-> {}, paused |-> {}, nullAt |-> {}]

NewRun(origin, rows) == [IdleRun EXCEPT !.st = "running", !.origin = origin, !.rows = rows]

\* if (i % 4 === 0) await sleep(...)  /  if (i % 3 === 0) await sleep(...)
PAUSE_EVERY_CANVAS == 4
PAUSE_EVERY_CLUSTER == 3
PauseEvery == IF variant = "canvas" THEN PAUSE_EVERY_CANVAS ELSE PAUSE_EVERY_CLUSTER

Marker(row, c) ==
    [row |-> row, lat |-> c.lat, lon |-> c.lon,
     color |-> colorForType(Get(row, "Company Type"))]

\* Globe: row.Latitude !== undefined ? parseFloat(row.Latitude) : null
rowNumber(row, col) ==
    IF Get(row, col).t # "undefined" THEN parseFloat(Get(row, col)) ELSE NullVal

\* a mutation of needsGeocoding: falsy coordinates (0) count as absent
needsGeocodingFalsy(row) ==
    LET lat == rowNumber(row, "Latitude")
        lng == rowNumber(row, "Longitude")
    IN (lat.k # "num" \/ lat.v = 0) \/ (lng.k # "num" \/ lng.v = 0)

\* Globe: (lat === null || isNaN(lat)) || (lng === null || isNaN(lng))
needsGeocoding(row) ==
    LET lat == rowNumber(row, "Latitude")
        lng == rowNumber(row, "Longitude")
    IN (lat.k = "null" \/ isNaN(lat)) \/ (lng.k = "null" \/ isNaN(lng))

RECURSIVE Advance(_, _, _)
RECURSIVE Placed(_, _, _, _)

\* the loop after coordinates for row i are known: place the marker / point,
\* then pause (Leaflet, every PauseEvery-th index) or go on with row i + 1
Placed(run, c, cache, mk) ==
    LET row == run.rows[run.i + 1]
        r1 == [run EXCEPT !.added = @ + 1]
    IN IF variant = "globe"
       THEN Advance([r1 EXCEPT !.newPoints = Append(@, Marker(row, c)), !.i = @ + 1],
                    cache, mk)
       ELSE IF run.i % PauseEvery = 0
            THEN [run |-> [r1 EXCEPT !.st = "sleep", !.paused = @ \cup {run.i}],
                  markers |-> Append(mk, Marker(row, c))]
            ELSE Advance([r1 EXCEPT !.i = @ + 1], cache, Append(mk, Marker(row, c)))

\* a mutation of Resolved: a row without a geocoding result is not counted
ResolvedUncounted(run, res, cache, mk) ==
    IF res.k = "null"
    THEN Advance([run EXCEPT !.nullAt = @ \cup {run.i}, !.i = @ + 1], cache, mk)
    ELSE Placed(run, res, cache, mk)

\* the result of geocodeCityCountry (null or coordinates) for row i is known
Resolved(run, res, cache, mk) ==
    IF res.k = "null"
    THEN Advance([run EXCEPT !.missing = @ + 1, !.nullAt = @ \cup {run.i}, !.i = @ + 1],
                 cache, mk)
    ELSE Placed(run, res, cache, mk)

\* the loop from row i on, up to the next await that suspends it or to its end
Advance(run, cache, mk) ==
    IF run.i >= Len(run.rows) THEN [run |-> [run EXCEPT !.st = "done"], markers |-> mk]
    ELSE
      LET row == run.rows[run.i + 1]
          city == normalize(Get(row, "City"))
          country == normalize(Get(row, "Country"))
          key == makeGeocodeKey(Str(city), Str(country))
          called == [run EXCEPT !.geocoded = @ \cup {run.i}]
      IN IF variant = "globe" /\ ~needsGeocoding(row)
         THEN Placed(run, Coords(rowNumber(row, "Latitude"), rowNumber(row, "Longitude")),
                     cache, mk)
         ELSE IF city = <<>> \/ country = <<>>
         THEN Advance([run EXCEPT !.missing = @ + 1, !.i = @ + 1], cache, mk)
         ELSE IF key \in DOMAIN cache
         THEN Resolved(called, cache[key], cache, mk)
         ELSE [run |-> [called EXCEPT !.st = "fetch", !.key = key,
                                      !.q = makeQuery(Str(city), Str(country)),
                                      !.sentMemoized = key \in DOMAIN okMemo,
                                      !.sent = @ \cup {run.i}],
               markers |-> mk]

(***************************************************************************)
(* Inputs: the spreadsheets data/companies.xlsx may hold, the texts typed  *)
(* in the search box, the item localStorage holds at start-up.             *)
(***************************************************************************)
Cell(k, v) == [k |-> k, v |-> v]

Company(name, type, country, city) ==
    <<Cell("Company Name", Str(name)), Cell("Company Type", Str(type)),
      Cell("Country", Str(country)), Cell("City", Str(city))>>

\* "a" in "p", "x"; "b" in " P", "X" (the same place, typed differently);
\* no company type is given
SheetPlain ==
    <<Company(<<97>>, <<>>, <<120>>, <<112>>),
      Company(<<98>>, <<>>, <<88>>, <<32, 80>>)>>

\* with Latitude / Longitude columns: one row has numbers (and no city),
\* the other has empty cells and is located by City/Country
SheetLatLng ==
    <<Company(<<97>>, <<116>>, <<>>, <<>>)
        \o <<Cell("Latitude", Num(0)), Cell("Longitude", Num(7))>>,
      Company(<<98>>, <<116>>, <<120>>, <<113>>)
        \o <<Cell("Latitude", Str(<<>>)), Cell("Longitude", Str(<<>>))>>>>

\* no City column
SheetNoCity ==
    <<<<Cell("Company Name", Str(<<97>>)), Cell("Company Type", Str(<<116>>)),
        Cell("Country", Str(<<120>>)), Cell("Latitude", Num(3)),
        Cell("Longitude", Num(4))>>>>

SheetEmpty == <<>>

Sheets == {SheetPlain, SheetLatLng, SheetNoCity, SheetEmpty}

\* five companies in five cities ("p" to "t") of country "x"
SheetCities ==
    [n \in 1..5 |-> Company(<<96 + n>>, <<116>>, <<120>>, <<111 + n>>)]

\* "", " A", "|"
SearchTexts == {<<>>, <<32, 65>>, <<124>>}

InitialItems ==
    {NoItem, Stringify([key \in {<<112, 124, 120>>} |-> Coords(NumVal(48), NumVal(2))])}

Toast(kind) == [kind |-> kind, added |-> 0, missing |-> 0]
AddedToast(run) == [kind |-> "added", added |-> run.added, missing |-> run.missing]

(***************************************************************************)
(* The application                                                         *)
(***************************************************************************)
Init ==
    /\ variant \in Variants
    /\ allRows = <<>>
    /\ filteredRows = <<>>
    /\ columnNames = <<>>
    /\ dropdowns = EmptyMap
    /\ filtersState = EmptyMap
    /\ globalSearchTerm = <<>>
    /\ debouncePending = FALSE
    /\ storage \in InitialItems
    /\ geocodeCache = loadGeocodeCache(storage)
    /\ lastSaveOk = "none"
    /\ runs = [r \in RunIds |-> IdleRun]
    /\ markers = <<>>
    /\ pointsData = <<>>
    /\ rendered = <<>>
    /\ loads = {"boot"}
    /\ toastMsg = Toast("loading")
    /\ lastOp = "init"
    /\ outcome = "ok"
    /\ okMemo = EmptyMap
    /\ events = 0
    /\ fnArgs = <<>>
    /\ fnRes = <<>>

FreeRuns == {r \in RunIds : runs[r].st = "idle"}
FirstFree == CHOOSE r \in FreeRuns : \A o \in FreeRuns : r <= o

\* what a run leaves behind when it reaches its next await or its end.
\* Leaflet: updateStats, fitBounds, toast.  Globe: pointsData = newPoints,
\* toast, and the caller's renderPoints().
Settle(rid, res, pendingToast) ==
    LET done == res.run.st = "done"
    IN /\ runs' = [runs EXCEPT ![rid] = IF done THEN IdleRun ELSE res.run]
       /\ markers' = res.markers
       /\ pointsData' = IF done /\ variant = "globe" THEN res.run.newPoints ELSE pointsData
       /\ rendered' = IF done /\ variant = "globe" THEN res.run.newPoints ELSE rendered
       /\ toastMsg' = IF done THEN AddedToast(res.run) ELSE pendingToast

\* addMarkersForRows(rows) / buildPointsData(rows) up to its first await
StartRun(origin, rows, pendingToast) ==
    /\ FreeRuns # {}
    /\ Settle(FirstFree,
              Advance(NewRun(origin, rows), geocodeCache,
                      IF variant \in Leaflet THEN <<>> ELSE markers),
              pendingToast)

\* applyFilters under the filter settings the handler has just stored
applyFilters(fs, term) ==
    LET shown == filterRows(allRows, fs, term, columnNames)
    IN /\ filteredRows' = shown
       /\ StartRun("filter", shown, Toast("none"))

\* the spreadsheet fetch of loadAndRender / init answers
LoadResponse(origin, fetchOk, sheet) ==
    /\ origin \in loads
    /\ loads' = loads \ {origin}
    /\ UNCHANGED <<variant, globalSearchTerm, debouncePending, geocodeCache, storage,
                   lastSaveOk, okMemo, events, fnArgs, fnRes>>
    /\ IF ~fetchOk
       THEN /\ lastOp' = "loadFailed"
            /\ outcome' = "toastError"
            /\ toastMsg' = Toast("error")
            /\ UNCHANGED <<allRows, filteredRows, columnNames, dropdowns, filtersState,
                           runs, markers, pointsData, rendered>>
       ELSE IF validateColumns(sheet) # <<>>
       THEN /\ lastOp' = "loadRejected"
            /\ outcome' = "toastError"
            /\ toastMsg' = Toast("error")
            \* Globe: allRows = await loadExcel() comes before the validation
            /\ allRows' = IF variant = "globe" THEN sheet ELSE allRows
            /\ UNCHANGED <<filteredRows, columnNames, dropdowns, filtersState,
                           runs, markers, pointsData, rendered>>
       ELSE /\ lastOp' = "loadOk"
            /\ outcome' = "ok"
            /\ allRows' = sheet
            /\ filteredRows' = sheet
            /\ filtersState' = EmptyMap
            /\ columnNames' = columnsOf(sheet)
            /\ dropdowns' = buildDropdowns(sheet)
            /\ StartRun(origin, sheet,
                        IF variant = "globe" THEN Toast("none") ELSE Toast("placing"))

\* btnReload click (Leaflet variants)
ReloadClick ==
    /\ variant \in Leaflet
    /\ events < MaxEvents
    /\ "reload" \notin loads
    /\ loads' = loads \cup {"reload"}
    /\ events' = events + 1
    /\ toastMsg' = Toast("loading")
    /\ lastOp' = "reload"
    /\ outcome' = "ok"
    /\ UNCHANGED <<variant, allRows, filteredRows, columnNames, dropdowns, filtersState,
                   globalSearchTerm, debouncePending, geocodeCache, storage, lastSaveOk,
                   runs, markers, pointsData, rendered, okMemo, fnArgs, fnRes>>

\* btnClearCache click (Leaflet variants)
ClearCache(writeOk) ==
    /\ variant \in Leaflet
    /\ events < MaxEvents
    /\ events' = events + 1
    /\ geocodeCache' = EmptyMap
    /\ storage' = saveGeocodeCache(EmptyMap, writeOk)
    /\ lastSaveOk' = IF writeOk THEN "ok" ELSE "failed"
    /\ okMemo' = EmptyMap
    /\ toastMsg' = Toast("cleared")
    /\ lastOp' = "clear"
    /\ outcome' = "ok"
    /\ UNCHANGED <<variant, allRows, filteredRows, columnNames, dropdowns, filtersState,
                   globalSearchTerm, debouncePending, runs, markers, pointsData,
                   rendered, loads, fnArgs, fnRes>>

\* change event of the dropdown of column col; val = <<>> is "All"
SelectChange(col, val) ==
    /\ events < MaxEvents
    /\ col \in DOMAIN dropdowns
    /\ val \in dropdowns[col] \cup {<<>>}
    /\ events' = events + 1
    /\ filtersState' = IF val # <<>> THEN Put(filtersState, col, val)
                       ELSE Remove(filtersState, col)
    /\ applyFilters(filtersState', globalSearchTerm)
    /\ lastOp' = "apply"
    /\ outcome' = "ok"
    /\ UNCHANGED <<variant, allRows, columnNames, dropdowns, globalSearchTerm,
                   debouncePending, geocodeCache, storage, lastSaveOk, loads, okMemo,
                   fnArgs, fnRes>>

\* btnResetFilters click
ResetFilters ==
    /\ events < MaxEvents
    /\ events' = events + 1
    /\ filtersState' = EmptyMap
    /\ globalSearchTerm' = <<>>
    /\ applyFilters(EmptyMap, <<>>)
    /\ lastOp' = "apply"
    /\ outcome' = "ok"
    /\ UNCHANGED <<variant, allRows, columnNames, dropdowns, debouncePending,
                   geocodeCache, storage, lastSaveOk, loads, okMemo, fnArgs, fnRes>>

\* input event of the search box: the term is stored, the timer re-armed
SearchInput(text) ==
    /\ events < MaxEvents
    /\ events' = events + 1
    /\ globalSearchTerm' = toLowerCase(normalize(Str(text)))
    /\ debouncePending' = TRUE
    /\ toastMsg' = Toast("none")
    /\ lastOp' = "input"
    /\ outcome' = "ok"
    /\ UNCHANGED <<variant, allRows, filteredRows, columnNames, dropdowns, filtersState,
                   geocodeCache, storage, lastSaveOk, runs, markers, pointsData,
                   rendered, loads, okMemo, fnArgs, fnRes>>

\* the 200 ms timer fires: applyFilters
DebounceFire ==
    /\ debouncePending
    /\ debouncePending' = FALSE
    /\ applyFilters(filtersState, globalSearchTerm)
    /\ lastOp' = "apply"
    /\ outcome' = "ok"
    /\ UNCHANGED <<variant, allRows, columnNames, dropdowns, filtersState,
                   globalSearchTerm, geocodeCache, storage, lastSaveOk, loads, okMemo,
                   events, fnArgs, fnRes>>

\* the geocoding request of run rid is answered; writeOk: whether the
\* localStorage.setItem of saveGeocodeCache goes through
GeoResponse(rid, resp, writeOk) ==
    LET run == runs[rid]
        caughtAbove == run.origin \in {"boot", "reload"}
        value == IF resp.ok THEN resultOf(resp) ELSE NullResult
        cache == Put(geocodeCache, run.key, value)
        going == [run EXCEPT !.st = "running"]
    IN /\ run.st = "fetch"
       /\ lastOp' = "response"
       /\ UNCHANGED <<variant, allRows, filteredRows, columnNames, dropdowns,
                      filtersState, globalSearchTerm, debouncePending, loads, events,
                      fnArgs, fnRes>>
       /\ IF ~resp.ok /\ variant \in Leaflet
          THEN \* if (!res.ok) throw: the run ends; loadAndRender's caller
               \* catches it, applyFilters' caller does not
               /\ writeOk
               /\ runs' = [runs EXCEPT ![rid] = IdleRun]
               /\ outcome' = IF caughtAbove THEN "toastError" ELSE "unhandled"
               /\ toastMsg' = IF caughtAbove THEN Toast("error") ELSE Toast("none")
               /\ UNCHANGED <<geocodeCache, storage, lastSaveOk, okMemo, markers,
                              pointsData, rendered>>
          ELSE \* Globe catches the error inside geocodeCityCountry and
               \* memoizes null for it
               /\ geocodeCache' = cache
               /\ storage' = saveGeocodeCache(cache, writeOk)
               /\ lastSaveOk' = IF writeOk THEN "ok" ELSE "failed"
               /\ okMemo' = IF resp.ok THEN Put(okMemo, run.key, value) ELSE okMemo
               /\ outcome' = IF resp.ok THEN "ok" ELSE "caught"
               /\ Settle(rid, Resolved(going, value, cache, markers), Toast("none"))

\* the pause of run rid is over
SleepDone(rid) ==
    /\ runs[rid].st = "sleep"
    /\ Settle(rid, Advance([runs[rid] EXCEPT !.st = "running", !.i = @ + 1],
                           geocodeCache, markers), Toast("none"))
    /\ lastOp' = "sleep"
    /\ outcome' = "ok"
    /\ UNCHANGED <<variant, allRows, filteredRows, columnNames, dropdowns, filtersState,
                   globalSearchTerm, debouncePending, geocodeCache, storage, lastSaveOk,
                   loads, okMemo, events, fnArgs, fnRes>>

Load == \E origin \in {"boot", "reload"}, fetchOk \in BOOLEAN, sheet \in Sheets :
            LoadResponse(origin, fetchOk, sheet)
Clear(W) == \E writeOk \in W : ClearCache(writeOk)
Select == \E col \in DOMAIN dropdowns : \E val \in dropdowns[col] \cup {<<>>} :
            SelectChange(col, val)
Search == \E text \in SearchTexts : SearchInput(text)
Response(W) == \E rid \in RunIds, resp \in Responses, writeOk \in W :
            GeoResponse(rid, resp, writeOk)
Wake == \E rid \in RunIds : SleepDone(rid)

\* W: the outcomes localStorage.setItem may have (TRUE: the write goes through)
NextWith(W) ==
    \/ Load
    \/ ReloadClick
    \/ Clear(W)
    \/ Select
    \/ ResetFilters
    \/ Search
    \/ DebounceFire
    \/ Response(W)
    \/ Wake

\* The application with a localStorage that accepts every write.  The stored
\* item is read at start-up only, so nothing but storage and lastSaveOk
\* depends on whether a write goes through.
Next == NextWith({TRUE})

Spec == Init /\ [][Next]_vars

\* The application with a localStorage whose writes may throw
StoreBudget == events' <= MaxStoreEvents

NextStore ==
    \/ Load /\ StoreBudget
    \/ ReloadClick /\ StoreBudget
    \/ Clear(BOOLEAN) /\ StoreBudget
    \/ Select /\ StoreBudget
    \/ ResetFilters /\ StoreBudget
    \/ Search /\ StoreBudget
    \/ DebounceFire /\ StoreBudget
    \/ Response(BOOLEAN) /\ StoreBudget
    \/ Wake /\ StoreBudget

SpecStore == Init /\ [][NextStore]_vars

\* The Globe script alone: it has no Reload and no Clear-cache button, and
\* buildPointsData never pauses
InitGlobe == Init /\ variant = "globe"

NextGlobe ==
    \/ Load
    \/ Select
    \/ ResetFilters
    \/ Search
    \/ DebounceFire
    \/ Response({TRUE})

SpecGlobe == InitGlobe /\ [][NextGlobe]_vars

(***************************************************************************)
(* The pure functions on their own: Init draws the arguments, the action   *)
(* applies the function.  The application itself stays idle.               *)
(***************************************************************************)
StringsUpTo(alphabet, n) == UNION {[1..k -> alphabet] : k \in 0..n}

Quiet ==
    /\ allRows = <<>>
    /\ filteredRows = <<>>
    /\ columnNames = <<>>
    /\ dropdowns = EmptyMap
    /\ filtersState = EmptyMap
    /\ globalSearchTerm = <<>>
    /\ debouncePending = FALSE
    /\ storage = NoItem
    /\ geocodeCache = EmptyMap
    /\ lastSaveOk = "none"
    /\ runs = [r \in RunIds |-> IdleRun]
    /\ markers = <<>>
    /\ pointsData = <<>>
    /\ rendered = <<>>
    /\ loads = {}
    /\ toastMsg = Toast("none")
    /\ lastOp = "init"
    /\ outcome = "ok"
    /\ okMemo = EmptyMap
    /\ events = 0

\* company types: undefined, null, a number cell, strings of blanks, "a"
\* and "U", "Unknown" itself and " Unknown"
TypeInputs ==
    {Undefined, Null, Num(7), Str(UnknownType), Str(<<32>> \o UnknownType)}
        \cup {Str(s) : s \in StringsUpTo({32, 97, 85}, MaxLen)}

InitHash ==
    /\ variant \in Variants
    /\ Quiet
    /\ fnArgs \in {<<t>> : t \in TypeInputs}
    /\ fnRes = <<>>

ComputeColor ==
    /\ Len(fnArgs) = 1
    /\ fnRes = <<>>
    /\ fnRes' = <<colorForType(fnArgs[1])>>
    /\ UNCHANGED <<appVars, fnArgs>>

NextHash == ComputeColor

SpecHash == InitHash /\ [][NextHash]_vars

\* cities and countries: strings of "A", "a" and "|", and "a" with a blank
\* before or after it
KeyStrings == StringsUpTo({65, 97, 124}, MaxKeyLen) \cup {<<32, 97>>, <<97, 32>>}

\* makeGeocodeKey is the same text in the three scripts
InitKey ==
    /\ variant = "canvas"
    /\ Quiet
    /\ fnArgs \in {<<c1, k1, c2, k2>> : c1 \in KeyStrings, k1 \in KeyStrings,
                                        c2 \in KeyStrings, k2 \in KeyStrings}
    /\ fnRes = <<>>

ComputeKeys ==
    /\ Len(fnArgs) = 4
    /\ fnRes = <<>>
    /\ fnRes' = <<makeGeocodeKey(Str(fnArgs[1]), Str(fnArgs[2])),
                  makeGeocodeKey(Str(fnArgs[3]), Str(fnArgs[4]))>>
    /\ UNCHANGED <<appVars, fnArgs>>

NextKey == ComputeKeys

SpecKey == InitKey /\ [][NextKey]_vars

\* a sheet with a column "N" of n distinct values (number cells 1..n) and a
\* column "B" with no value.  shape "dup": every value a second time, as
\* text with blanks around it; shape "gap": a row with a blank "N" (and a
\* null, and a missing one) after every row.
CountRow(k, shape) ==
    LET per == IF shape = "dup" THEN 2 ELSE IF shape = "gap" THEN 3 ELSE 1
        n == (k - 1) \div per + 1
        part == (k - 1) % per
    IN IF part = 0 THEN <<Cell("N", Num(n)), Cell("B", Str(<<32>>))>>
       ELSE IF shape = "dup"
       THEN <<Cell("N", Str(<<32>> \o DigitsOf(n) \o <<32>>)), Cell("B", Null)>>
       ELSE IF part = 1
       THEN <<Cell("N", IF n % 2 = 0 THEN Null ELSE Str(<<32, 32>>)),
              Cell("B", Str(<<>>))>>
       ELSE <<Cell("B", Str(<<>>))>>

CountRows(n, shape) ==
    LET per == IF shape = "dup" THEN 2 ELSE IF shape = "gap" THEN 3 ELSE 1
    IN [k \in 1..(n * per) |-> CountRow(k, shape)]

Shapes == {"plain", "dup", "gap"}

\* numbers of distinct values: few, and around the two limits
ColumnSizes ==
    0..2 \cup (MAX_UNIQUES - 1)..(MAX_UNIQUES + MaxOver)
         \cup (MAX_UNIQUES_FOR_DROPDOWN - 1)..(MAX_UNIQUES_FOR_DROPDOWN + MaxOver)

CountSheet(args) == CountRows(args[1], args[2])

\* a filter may be selected when the sheet is (re)loaded
InitFilters ==
    /\ variant \in Variants
    /\ allRows = <<>>
    /\ filteredRows = <<>>
    /\ columnNames \in {<<>>, <<"N", "B">>}
    /\ dropdowns = EmptyMap
    /\ filtersState = IF columnNames = <<>> THEN EmptyMap ELSE [c \in {"N"} |-> <<49>>]
    /\ globalSearchTerm = <<>>
    /\ debouncePending = FALSE
    /\ storage = NoItem
    /\ geocodeCache = EmptyMap
    /\ lastSaveOk = "none"
    /\ runs = [r \in RunIds |-> IdleRun]
    /\ markers = <<>>
    /\ pointsData = <<>>
    /\ rendered = <<>>
    /\ loads = {}
    /\ toastMsg = Toast("none")
    /\ lastOp = "init"
    /\ outcome = "ok"
    /\ okMemo = EmptyMap
    /\ events = 0
    /\ fnArgs \in {<<n, shape>> : n \in ColumnSizes, shape \in Shapes}
    /\ fnRes = <<>>

ComputeFilters ==
    /\ Len(fnArgs) = 2
    /\ fnRes = <<>>
    /\ LET built == buildFilters(CountSheet(fnArgs))
       IN /\ fnRes' = <<built.selects>>
          /\ filtersState' = built.filtersState
          /\ columnNames' = built.columnNames
    /\ lastOp' = "buildFilters"
    /\ UNCHANGED <<variant, allRows, filteredRows, dropdowns, globalSearchTerm,
                   debouncePending, geocodeCache, storage, lastSaveOk, runs, markers,
                   pointsData, rendered, loads, toastMsg, outcome, okMemo, events,
                   fnArgs>>

NextFilters == ComputeFilters

SpecFilters == InitFilters /\ [][NextFilters]_vars

\* One load of the five-city sheet in a Leaflet script, to follow the pauses
\* of a single run of addMarkersForRows
InitPause == Init /\ variant \in Leaflet

PLoad == \E fetchOk \in BOOLEAN : LoadResponse("boot", fetchOk, SheetCities)

NextPause ==
    \/ PLoad
    \/ Response({TRUE})
    \/ Wake

SpecPause == InitPause /\ [][NextPause]_vars

\* The detail view of one row.  Cells: "", " ", "a", " a ", "<&", "&lt;",
\* the numbers 0 and 7, null.
DetailCells ==
    {Str(<<>>), Str(<<32>>), Str(<<97>>), Str(<<32, 97, 32>>), Str(<<60, 38>>),
     Str(<<38, 108, 116, 59>>), Num(0), Num(7), Null}

DetailRows ==
    {<<Cell("Company Name", a), Cell("Note", b)>> : a \in DetailCells, b \in DetailCells}

InitDetail ==
    /\ variant \in Variants
    /\ Quiet
    /\ fnArgs \in {<<row>> : row \in DetailRows}
    /\ fnRes = <<>>

\* a click on the row's marker: the popup opens / showInfo(p.row)
OpenDetail ==
    /\ fnRes = <<>>
    /\ fnArgs # <<>>
    /\ fnRes' = <<detailEntries(fnArgs[1])>>
    /\ UNCHANGED <<appVars, fnArgs>>

NextDetail == OpenDetail

SpecDetail == InitDetail /\ [][NextDetail]_vars

(***************************************************************************)
(* One scenario under each script in turn: the same spreadsheet, the same  *)
(* geocoder (every request gets the same kind of answer) and the same user *)
(* actions, each taken once the page has come to rest.  fnArgs holds the   *)
(* scenario, fnRes what each script ended with.                            *)
(***************************************************************************)
SelectAct(col, val) == [a |-> "select", col |-> col, val |-> val]
ResetAct == [a |-> "reset", col |-> "", val |-> <<>>]
SearchAct(text) == [a |-> "search", col |-> "", val |-> text]

\* choose company "a", choose "All" again, Reset, type " A", clear the box
UserActs ==
    {SelectAct("Company Name", <<97>>), SelectAct("Company Name", <<>>), ResetAct,
     SearchAct(<<32, 65>>), SearchAct(<<>>)}

Scenarios ==
    {<<sheet, resp, acts>> :
        sheet \in {SheetPlain, SheetLatLng},
        resp \in Responses,
        acts \in UNION {[1..n -> UserActs] : n \in 0..MaxEvents}}

\* nothing is pending: no fetch, no run, no timer
AtRest ==
    /\ loads = {}
    /\ \A r \in RunIds : runs[r].st = "idle"
    /\ ~debouncePending

\* what a script has ended with: the rows shown, the rows that have a
\* marker (Leaflet) or a point (Globe), the memoized entries
Ending ==
    [filteredRows |-> filteredRows,
     markedRows |-> IF variant = "globe"
                    THEN {rendered[i].row : i \in 1..Len(rendered)}
                    ELSE {markers[i].row : i \in 1..Len(markers)},
     cache |-> geocodeCache]

InitVariants ==
    /\ variant = "canvas"
    /\ allRows = <<>>
    /\ filteredRows = <<>>
    /\ columnNames = <<>>
    /\ dropdowns = EmptyMap
    /\ filtersState = EmptyMap
    /\ globalSearchTerm = <<>>
    /\ debouncePending = FALSE
    /\ storage = NoItem
    /\ geocodeCache = loadGeocodeCache(NoItem)
    /\ lastSaveOk = "none"
    /\ runs = [r \in RunIds |-> IdleRun]
    /\ markers = <<>>
    /\ pointsData = <<>>
    /\ rendered = <<>>
    /\ loads = {"boot"}
    /\ toastMsg = Toast("loading")
    /\ lastOp = "init"
    /\ outcome = "ok"
    /\ okMemo = EmptyMap
    /\ events = 0
    /\ fnArgs \in Scenarios
    /\ fnRes = <<>>

VLoad ==
    /\ Len(fnArgs) = 3
    /\ LoadResponse("boot", TRUE, fnArgs[1])

VRespond ==
    /\ Len(fnArgs) = 3
    /\ \E rid \in RunIds : GeoResponse(rid, fnArgs[2], TRUE)

VWake == Len(fnArgs) = 3 /\ Wake

VAct ==
    /\ Len(fnArgs) = 3
    /\ AtRest
    /\ events < Len(fnArgs[3])
    /\ LET act == fnArgs[3][events + 1]
       IN \/ act.a = "select" /\ SelectChange(act.col, act.val)
          \/ act.a = "reset" /\ ResetFilters
          \/ act.a = "search" /\ SearchInput(act.val)

VDebounce == Len(fnArgs) = 3 /\ DebounceFire

\* the scenario is over for this script: note its ending and start the
\* next script on a fresh page
VNextVariant ==
    /\ Len(fnArgs) = 3
    /\ AtRest
    /\ events = Len(fnArgs[3])
    /\ Len(fnRes) < 3
    /\ fnRes' = Append(fnRes, Ending)
    /\ lastOp' = "ended"
    /\ IF variant = "globe"
       THEN UNCHANGED <<variant, allRows, filteredRows, columnNames, dropdowns,
                        filtersState, globalSearchTerm, debouncePending, geocodeCache,
                        storage, lastSaveOk, runs, markers, pointsData, rendered, loads,
                        toastMsg, outcome, okMemo, events, fnArgs>>
       ELSE /\ variant' = IF variant = "canvas" THEN "cluster" ELSE "globe"
            /\ allRows' = <<>>
            /\ filteredRows' = <<>>
            /\ columnNames' = <<>>
            /\ dropdowns' = EmptyMap
            /\ filtersState' = EmptyMap
            /\ globalSearchTerm' = <<>>
            /\ debouncePending' = FALSE
            /\ storage' = NoItem
            /\ geocodeCache' = loadGeocodeCache(NoItem)
            /\ lastSaveOk' = "none"
            /\ runs' = [r \in RunIds |-> IdleRun]
            /\ markers' = <<>>
            /\ pointsData' = <<>>
            /\ rendered' = <<>>
            /\ loads' = {"boot"}
            /\ toastMsg' = Toast("loading")
            /\ outcome' = "ok"
            /\ okMemo' = EmptyMap
            /\ events' = 0
            /\ UNCHANGED fnArgs

NextVariants ==
    \/ VLoad
    \/ VRespond
    \/ VWake
    \/ VAct
    \/ VDebounce
    \/ VNextVariant

SpecVariants == InitVariants /\ [][NextVariants]_vars

(***************************************************************************)
(* Reference notions the properties are stated with                        *)
(***************************************************************************)
\* s without its surrounding white space, by position
Trimmed(s) ==
    LET solid == {i \in 1..Len(s) : ~IsSpace(s[i])}
    IN IF solid = {} THEN <<>>
       ELSE SubSeq(s, CHOOSE i \in solid : \A j \in solid : i <= j,
                      CHOOSE i \in solid : \A j \in solid : i >= j)

\* the string a cell value stands for
TextOf(v) == IF v.t \in {"undefined", "null"} THEN <<>> ELSE Trimmed(ToStr(v))

Lowered(s) == [i \in 1..Len(s) |-> IF s[i] >= 65 /\ s[i] <= 90 THEN s[i] + 32 ELSE s[i]]

\* h := (h * 31 + c) mod 2^32 on four 8-bit digits, least significant first
ByteStep(b, c) ==
    LET t1 == b[1] * 31 + c
        t2 == b[2] * 31 + t1 \div 256
        t3 == b[3] * 31 + t2 \div 256
        t4 == b[4] * 31 + t3 \div 256
    IN <<t1 % 256, t2 % 256, t3 % 256, t4 % 256>>

RECURSIVE ByteHash(_)
ByteHash(s) ==
    IF s = <<>> THEN <<0, 0, 0, 0>>
    ELSE ByteStep(ByteHash(SubSeq(s, 1, Len(s) - 1)), s[Len(s)])

\* h mod 360 for the four digits of h
HueOfHash(b) == ((((((b[4] % 360) * 256 + b[3]) % 360) * 256 + b[2]) % 360) * 256 + b[1]) % 360

\* a is a subsequence of b
RECURSIVE IsSubsequence(_, _)
IsSubsequence(a, b) ==
    IF a = <<>> THEN TRUE
    ELSE IF b = <<>> THEN FALSE
    ELSE IF Head(a) = Head(b) THEN IsSubsequence(Tail(a), Tail(b))
    ELSE IsSubsequence(a, Tail(b))

\* the value of a cell that holds a number: a number cell, or text that is
\* an unsigned decimal numeral
HoldsNumber(v) ==
    \/ v.t = "num"
    \/ /\ v.t = "str"
       /\ Trimmed(v.s) # <<>>
       /\ \A i \in 1..Len(Trimmed(v.s)) : Trimmed(v.s)[i] \in 48..57

BothNumbers(row) ==
    HoldsNumber(Get(row, "Latitude")) /\ HoldsNumber(Get(row, "Longitude"))

NumberIn(v) == IF v.t = "num" THEN v.n ELSE DigitsValue(Trimmed(v.s))

InFlight == {r \in RunIds : runs[r].st = "fetch"}

(***************************************************************************)
(* Properties                                                              *)
(***************************************************************************)

\* C1 (as stated): once an OK response has memoized a value for a key, a
\* later call for that key finds exactly that value in the cache (the
\* coordinates, or null for an empty result) and sends no request for it,
\* until the cache is cleared.
C1_MemoizedValueIsReturned ==
    /\ \A k \in DOMAIN okMemo : k \in DOMAIN geocodeCache /\ geocodeCache[k] = okMemo[k]
    /\ \A r \in InFlight : ~runs[r].sentMemoized

\* C2: right after applyFilters, filteredRows lists, in the order of
\* allRows, exactly the rows whose trimmed value equals the selected value
\* in every filtered column and which pass the search; and one more column
\* filter would leave a subsequence of it.
Passing ==
    {i \in 1..Len(allRows) :
        /\ \A col \in DOMAIN filtersState :
              TextOf(Get(allRows[i], col)) = filtersState[col]
        /\ searchPasses(allRows[i], globalSearchTerm, columnNames)}

NthPassing(n) == CHOOSE i \in Passing : Cardinality({j \in Passing : j < i}) = n - 1

C2_FilteredRowsAreTheMatchingRows ==
    lastOp = "apply" =>
        /\ Len(filteredRows) = Cardinality(Passing)
        /\ \A n \in 1..Len(filteredRows) : filteredRows[n] = allRows[NthPassing(n)]
        /\ \A col \in DOMAIN dropdowns : \A val \in dropdowns[col] :
              col \notin DOMAIN filtersState =>
                  IsSubsequence(filterRows(allRows, Put(filtersState, col, val),
                                           globalSearchTerm, columnNames),
                                filteredRows)

\* C2 witness: two column filters are active and together leave fewer rows
\* than were loaded
C2_Witness ==
    /\ lastOp = "apply"
    /\ Cardinality(DOMAIN filtersState) = 2
    /\ Len(allRows) = 2
    /\ Len(filteredRows) = 1

\* C3 (as stated): with the columns of the loaded rows known, a row passes a
\* non-empty search term exactly when the term occurs in the trimmed,
\* lower-cased value of one of its columns; every row passes an empty term.
C3_SearchIsPerColumn ==
    columnNames = columnsOf(allRows) =>
        \A i \in 1..Len(allRows) :
            searchPasses(allRows[i], globalSearchTerm, columnNames)
            <=> \/ globalSearchTerm = <<>>
                \/ \E col \in KeySet(allRows[i]) :
                      includes(Lowered(TextOf(Get(allRows[i], col))), globalSearchTerm)

\* C4 (as stated): a load that validation rejects shows the error and leaves
\* the rows, the filters and the markers as they were.
C4_RejectedLoadChangesNothing ==
    [][lastOp' = "loadRejected" =>
          /\ toastMsg'.kind = "error"
          /\ UNCHANGED <<allRows, filteredRows, columnNames, dropdowns, filtersState,
                         runs, markers, pointsData, rendered>>]_vars

\* C5 (as stated): at most one geocoding request is in flight, and no cache
\* key has two requests in flight.
C5_OneRequestAtATime ==
    /\ Cardinality(InFlight) <= 1
    /\ \A r1, r2 \in InFlight : runs[r1].key = runs[r2].key => r1 = r2

\* C6: in the Globe variant a run never calls geocodeCityCountry for a row
\* whose Latitude and Longitude both hold numbers, and every such row it has
\* passed has its point at exactly those numbers, also when the row has no
\* City or Country.
PointsAtOwnCoordinates(rows, upTo, points) ==
    \A i \in 1..upTo :
        BothNumbers(rows[i]) =>
            \E p \in 1..Len(points) :
                /\ points[p].row = rows[i]
                /\ points[p].lat = NumVal(NumberIn(Get(rows[i], "Latitude")))
                /\ points[p].lon = NumVal(NumberIn(Get(rows[i], "Longitude")))

C6_NumericRowsBypassGeocoding ==
    variant = "globe" =>
        \A r \in RunIds :
            runs[r].st # "idle" =>
                /\ \A i \in runs[r].geocoded : ~BothNumbers(runs[r].rows[i + 1])
                /\ PointsAtOwnCoordinates(runs[r].rows, runs[r].i, runs[r].newPoints)

\* C6 witness: a Globe run waits for the geocoder for its second row after
\* it has placed the first row, which has no city, at latitude 0
C6_Witness ==
    /\ variant = "globe"
    /\ \E r \in InFlight :
          /\ runs[r].i = 1
          /\ BothNumbers(runs[r].rows[1])
          /\ TextOf(Get(runs[r].rows[1], "City")) = <<>>
          /\ Len(runs[r].newPoints) = 1
          /\ runs[r].newPoints[1].lat = NumVal(0)
          /\ runs[r].geocoded = {1}

\* C7: the hue is the hash of the trimmed type modulo 360, the hash being
\* h := (h * 31 + code) mod 2^32 from 0; it lies in 0..359; it is the same
\* in the three variants; a missing or blank type has the hue of "Unknown"
\* (1379812394 mod 360 = 74).
C7_HueIsHashMod360 ==
    fnRes # <<>> /\ Len(fnArgs) = 1 =>
        LET t == TextOf(fnArgs[1])
            hue == fnRes[1].hue
        IN /\ hue \in 0..359
           /\ hue = HueOfHash(ByteHash(IF t = <<>> THEN UnknownType ELSE t))
           /\ t = <<>> => hue = 74
           /\ \A other \in TypeInputs :
                 TextOf(other) = t => colorForType(other).hue = hue

\* C7 witness: a type of blanks only has been given its colour
C7_Witness ==
    /\ fnRes # <<>>
    /\ Len(fnArgs) = 1
    /\ fnArgs[1] = Str(<<32, 32>>)
    /\ fnRes[1].hue = 74

\* C8 (as stated): two pairs get the same key exactly when their cities and
\* their countries are equal after trimming and lower-casing.
C8_KeysCollideIffSamePlace ==
    fnRes # <<>> /\ Len(fnArgs) = 4 =>
        (fnRes[1] = fnRes[2]
         <=> /\ Lowered(Trimmed(fnArgs[1])) = Lowered(Trimmed(fnArgs[3]))
             /\ Lowered(Trimmed(fnArgs[2])) = Lowered(Trimmed(fnArgs[4])))

C10_EveryFailureIsShown ==
    /\ outcome # "unhandled"
    /\ lastOp \in {"loadFailed", "loadRejected"} => toastMsg.kind = "error"

\* C11: buildFilters makes a dropdown for a column exactly when the column
\* has between 1 and the limit (200 Leaflet, 150 Globe) distinct non-empty
\* trimmed values; its options are "All" and then each of those values
\* once; and filtersState is empty afterwards.
DistinctValues(rows, col) ==
    {TextOf(Get(rows[i], col)) : i \in 1..Len(rows)} \ {<<>>}

C11_DropdownIffWithinLimit ==
    fnRes # <<>> /\ Len(fnArgs) = 2 =>
        LET rows == CountSheet(fnArgs)
            selects == fnRes[1]
            limit == IF variant = "globe" THEN 150 ELSE 200
            cols == UNION {KeySet(rows[i]) : i \in 1..Len(rows)}
        IN /\ \A col \in cols :
                 LET n == Cardinality(DistinctValues(rows, col))
                     made == {i \in 1..Len(selects) : selects[i].col = col}
                 IN /\ Cardinality(made) = IF 1 <= n /\ n <= limit THEN 1 ELSE 0
                    /\ \A i \in made :
                          LET opts == selects[i].options
                          IN /\ Len(opts) = n + 1
                             /\ opts[1] = <<>>
                             /\ {opts[j] : j \in 2..Len(opts)} = DistinctValues(rows, col)
           /\ \A i \in 1..Len(selects) : selects[i].col \in cols
           /\ filtersState = EmptyMap

\* C11 witness: a column with exactly as many values as the limit, each
\* twice, got its dropdown while a filter was selected
C11_Witness ==
    /\ fnRes # <<>>
    /\ Len(fnArgs) = 2
    /\ fnArgs[1] = MaxUniques
    /\ fnArgs[2] = "dup"
    /\ columnNames = <<"N", "B">>
    /\ Len(fnRes[1]) = 1
    /\ Len(fnRes[1][1].options) = MaxUniques + 1
    /\ filtersState = EmptyMap

\* C12 (as stated): with the same rows, the same geocoder answers and the
\* same user actions, the three scripts end with the same rows shown,
\* markers for the same rows and the same memoized entries.
C12_VariantsEndAlike ==
    Len(fnArgs) = 3 =>
        \A i, j \in 1..Len(fnRes) : fnRes[i] = fnRes[j]

\* C13 (as stated): a run of addMarkersForRows never sends more than 3
\* (cluster) or 4 (canvas) requests without a pause between them, and it
\* pauses only after a row it sent a request for (never after a row that
\* the cache answered).
RequestsInARow(run, i, j) ==
    IF run.paused \cap i..(j - 1) = {} THEN Cardinality(run.sent \cap i..j) ELSE 0

C13_PauseEveryFewRequests ==
    variant \in Leaflet =>
        \A r \in RunIds :
            /\ \A i, j \in runs[r].sent :
                  RequestsInARow(runs[r], i, j) <= (IF variant = "cluster" THEN 3 ELSE 4)
            /\ runs[r].paused \subseteq runs[r].sent

\* the entries of the detail view that was opened
EntriesShown == fnRes[1]

NoPlace(row) ==
    /\ TextOf(Get(row, "City")) = <<>> \/ TextOf(Get(row, "Country")) = <<>>
    /\ ~(variant = "globe" /\ BothNumbers(row))

Looked(row) == ~NoPlace(row) /\ ~(variant = "globe" /\ BothNumbers(row))

\* the rows (0-based) a run has passed while it is suspended
Passed(run) == 0..(IF run.st = "sleep" THEN run.i ELSE run.i - 1)

CountsSoFar ==
    \A r \in RunIds :
        LET run == runs[r]
        IN run.st # "idle" =>
              /\ run.added + run.missing = Cardinality(Passed(run))
              /\ run.nullAt \subseteq Passed(run)
              /\ \A i \in run.nullAt : Looked(run.rows[i + 1])
              /\ run.missing = Cardinality(run.nullAt)
                                + Cardinality({i \in Passed(run) : NoPlace(run.rows[i + 1])})
              /\ variant = "globe" => Len(run.newPoints) = run.added

\* the counts the toast reports for a run over rows that completes in this
\* step, having passed the rows before index from in earlier steps
CountsReported(rows, from, nullBefore, addedBefore, markersBefore) ==
    LET last == Len(rows) - 1
        nulls == nullBefore \cup
                 {i \in from..last :
                     /\ Looked(rows[i + 1])
                     /\ geocodeCache'[makeGeocodeKey(Get(rows[i + 1], "City"),
                                                     Get(rows[i + 1], "Country"))]
                        = NullResult}
        gone == nulls \cup {i \in 0..last : NoPlace(rows[i + 1])}
    IN /\ toastMsg'.added + toastMsg'.missing = Len(rows)
       /\ toastMsg'.missing = Cardinality(gone)
       /\ IF variant = "globe"
          THEN /\ Len(pointsData') = toastMsg'.added
               /\ \A p \in 1..Len(pointsData') :
                     \E i \in (0..last) \ gone : pointsData'[p].row = rows[i + 1]
          ELSE Len(markers') = markersBefore + toastMsg'.added - addedBefore

RunCompletes ==
    /\ toastMsg'.kind = "added"
    /\ lastOp' \in {"response", "sleep"}
       => \A r \in RunIds :
             runs[r].st # "idle" /\ runs'[r].st = "idle"
             => CountsReported(runs[r].rows, Cardinality(Passed(runs[r])),
                               runs[r].nullAt, runs[r].added, Len(markers))
    /\ lastOp' \in {"apply", "loadOk"}
       => CountsReported(filteredRows', 0, {}, 0, 0)

\* C15: the counts of every suspended run cover the rows it has passed, and
\* every step that completes a run reports counts that add up as above
C15_CountsAddUp ==
    /\ []CountsSoFar
    /\ [][toastMsg'.kind = "added" /\ lastOp' \in {"response", "sleep", "apply", "loadOk"}
            => RunCompletes]_vars

\* C15 witness: a run over two rows has completed and reported one marker
\* added and one row missing
C15_Witness ==
    /\ toastMsg.kind = "added"
    /\ toastMsg.added = 1
    /\ toastMsg.missing = 1
    /\ lastOp = "response"
    /\ Len(filteredRows) = 2
    /\ \A r \in RunIds : runs[r].st = "idle"

\* C16 (as stated): in the Leaflet variants, while no run is in progress,
\* the layer holds one marker for each row of filteredRows whose location
\* is resolved and no other marker: none for a row that is not shown, none
\* twice, none for a row without a location.
MarkersOf(row) == Cardinality({i \in 1..Len(markers) : markers[i].row = row})
ShownTimes(row) == Cardinality({i \in 1..Len(filteredRows) : filteredRows[i] = row})
PlaceKey(row) == makeGeocodeKey(Get(row, "City"), Get(row, "Country"))

\* C16: with every run idle, each marker belongs to a shown row, and a row
\* whose location is known has as many markers as it is shown times
C16_MarkersAreTheShownRows ==
    variant \in Leaflet /\ (\A r \in RunIds : runs[r].st = "idle") =>
        \A row \in {markers[i].row : i \in 1..Len(markers)}
                   \cup {filteredRows[i] : i \in 1..Len(filteredRows)} :
            /\ MarkersOf(row) <= ShownTimes(row)
            /\ PlaceKey(row) \in DOMAIN geocodeCache =>
                  MarkersOf(row) = IF NoPlace(row) \/ geocodeCache[PlaceKey(row)] = NullResult
                                   THEN 0 ELSE ShownTimes(row)

\* C17 (as stated): in the Globe variant, while no buildPointsData is in
\* progress, the points handed to the globe are pointsData, and pointsData
\* holds one point for each row of filteredRows that has a location and no
\* other point; a stale result of an earlier call is never what remains.
PointsOf(row) == Cardinality({i \in 1..Len(pointsData) : pointsData[i].row = row})

\* C17: with every run idle, the globe shows pointsData, each point belongs
\* to a shown row, and a row whose location is known has as many points as
\* it is shown times
C17_PointsAreTheShownRows ==
    variant = "globe" /\ (\A r \in RunIds : runs[r].st = "idle") =>
        /\ rendered = pointsData
        /\ \A row \in {pointsData[i].row : i \in 1..Len(pointsData)}
                      \cup {filteredRows[i] : i \in 1..Len(filteredRows)} :
              /\ PointsOf(row) <= ShownTimes(row)
              /\ BothNumbers(row) => PointsOf(row) = ShownTimes(row)
              /\ ~BothNumbers(row) /\ PlaceKey(row) \in DOMAIN geocodeCache =>
                    PointsOf(row) = IF NoPlace(row) \/ geocodeCache[PlaceKey(row)] = NullResult
                                    THEN 0 ELSE ShownTimes(row)

\* C18 (as stated): whenever no search debounce timer is pending,
\* filteredRows is allRows filtered by the current filtersState and the
\* current globalSearchTerm.
C18_ShownRowsAreTheFilteredRows ==
    ~debouncePending =>
        filteredRows = filterRows(allRows, filtersState, globalSearchTerm, columnNames)

====
